---- MODULE Spec2Model ----
(***************************************************************************)
(* Recurring billing of app/iamport/iamport.service.js: the daily scan,    *)
(* pay(), paymentHook(), setAsDefault(), subscribe(), changeSubscription() *)
(* and the payment-method handlers, over the three collections             *)
(* payment-methods, payment-schedule and payment-transactions.             *)
(*                                                                         *)
(* Time is counted in hours since the epoch (UTC).  Every document-store   *)
(* operation is one atomic step that succeeds; the steps of different      *)
(* handlers interleave freely.  The gateway answers a charge request with  *)
(* any status, or with a transport error.                                  *)
(***************************************************************************)
EXTENDS Integers, Sequences, FiniteSets, TLC

VARIABLES
    now,            \* wall clock, hours since the epoch (UTC)
    ticks,          \* how many times the clock has advanced
    timers,         \* fire times of the armed setTimeout scan timers
    methods,        \* collection payment-methods, in natural order
    schedule,       \* collection payment-schedule, in natural order
    transactions,   \* collection payment-transactions, in natural order
    calls,          \* the pay() calls whose promise has not settled yet
    npays,          \* how many pay() calls have been made
    nreqs,          \* how many requests the handlers have taken
    requests,       \* the merchant_uids of the charge requests the gateway has received
    hooks,          \* the paymentHook invocations scheduled and not yet finished
    defaults,       \* setAsDefault calls between their store operations
    changes,        \* changeSubscription calls between findOne and updateOne
    res,            \* the response the last step sent with res.send, if any
    settled,        \* the pay() promise the last step settled, if any
    scans,          \* the scans that wait for promises they pushed: their result arrays
    logged          \* the aggregate the last step logged for a scan, if any

vars == <<now, ticks, timers, methods, schedule, transactions, calls, npays,
          nreqs, requests, hooks, defaults, changes, res, settled, scans, logged>>

-----------------------------------------------------------------------------
(* Bounds of the model *)

MaxTicks == 2
MaxPays == 2
MaxRequests == 2

\* four weeks less an hour, plus a day: the local time of day changes with each step
TickSteps == {695}

Business == {"B1"}
Last4 == {"1111"}
Cards == {[last |-> "1111", len |-> 4], [last |-> "333", len |-> 3]}
SubscribePlans == {"4_WEEK", "1_WEEK"}
\* B2 never subscribes: it has no schedule entry
ChangeBusiness == {"B1", "B2"}
ChangePlans == {"52_WEEK", "1_WEEK"}
Amounts == {1000}
ChangeAmounts == {2000}
Vats == {100}
ChargeNums == {<<>>, <<9>>}
GatewayStatus == {"paid", "failed", "cancelled", "ready"}

-----------------------------------------------------------------------------
(* Enumerations and clock arithmetic *)

full_day == 24
SeoulOffset == 9
SixAM == 6
HoursPerWeek == 168

billing_plan_type == [x \in {"4_WEEK", "26_WEEK", "52_WEEK"} |->
    CASE x = "4_WEEK" -> 4 [] x = "26_WEEK" -> 26 [] x = "52_WEEK" -> 52]

payment_type == [initial |-> "INITIAL", scheduled |-> "SCHEDULED", refund |-> "REFUND"]

\* a table that books a cancelled charge as paid
status_typeCancelledPaid(key) ==
    CASE key \in {"paid", "cancelled"} -> "PAID"
      [] key = "failed" -> "FAILED"
      [] key = "pending" -> "PENDING"
      [] OTHER -> "undefined"

\* status_type[key]; a key the table lacks gives undefined
status_type(key) ==
    CASE key = "paid" -> "PAID"
      [] key = "cancelled" -> "REFUNDED"
      [] key = "failed" -> "FAILED"
      [] key = "pending" -> "PENDING"
      [] OTHER -> "undefined"

\* a Date and the ISO string JSON.stringify turns it into
toDate(t) == [date |-> t]
toISOString(d) == [iso |-> d.date]
\* moment(x) of a Date or of an ISO string: the instant
moment(x) == IF "date" \in DOMAIN x THEN x.date ELSE x.iso

\* .tz(seoul).hour(0).minute(0).second(0).millisecond(0)
StartOfLocalDay(t) == t - ((t + SeoulOffset) % full_day)

\* billing_plan_type[plan] weeks as moment adds them: undefined adds nothing
Cadence(plan) ==
    IF plan \in DOMAIN billing_plan_type THEN billing_plan_type[plan] ELSE 0

\* a next pay date that forgets to add the cadence
NextPayDateSameDay(pay_date, plan) == StartOfLocalDay(moment(pay_date))

\* moment(pay_date).tz(seoul).add(cadence, 'week').hour(0)...millisecond(0)
NextPayDate(pay_date, plan) ==
    StartOfLocalDay(moment(pay_date) + Cadence(plan) * HoursPerWeek)

\* time_until of checkScheduleAt6AM
TimeUntil(t) ==
    ((StartOfLocalDay(t + full_day) + SixAM) - t) % full_day

-----------------------------------------------------------------------------
(* Strings: merchant_uid and customer_uid *)

DigitChar == <<"0", "1", "2", "3", "4", "5", "6", "7", "8", "9">>

IsDigit(c) == \E i \in 1..10 : DigitChar[i] = c

DigitVal(c) == CHOOSE i \in 0..9 : DigitChar[i + 1] = c

RECURSIVE ToDigits(_)
ToDigits(n) ==
    IF n < 10 THEN <<DigitChar[n + 1]>>
    ELSE ToDigits(n \div 10) \o <<DigitChar[(n % 10) + 1]>>

\* `${business_id}_ch${charge_num}`
MerchantUid(business_id, charge_num) ==
    <<business_id, "_", "c", "h">> \o ToDigits(charge_num)

\* merchant_uid.match(/\d+$/): the trailing digits, <<>> when there are none
RECURSIVE TrailingDigits(_)
TrailingDigits(s) ==
    IF s = <<>> \/ ~IsDigit(s[Len(s)]) THEN <<>>
    ELSE TrailingDigits(SubSeq(s, 1, Len(s) - 1)) \o <<s[Len(s)]>>

\* a parse that reads the last digit only
parseIntLastDigit(ds) == DigitVal(ds[Len(ds)])

RECURSIVE parseInt(_)
parseInt(ds) ==
    IF Len(ds) = 1 THEN DigitVal(ds[1])
    ELSE 10 * parseInt(SubSeq(ds, 1, Len(ds) - 1)) + DigitVal(ds[Len(ds)])

\* `${business_id}_${last_4_digits}`
CustomerUid(business_id, last4) == <<business_id, "_", last4>>

CustomerUids == {CustomerUid(b, d) : b \in Business, d \in Last4}

-----------------------------------------------------------------------------
(* Collection helpers *)

\* the first of the indexes that match a filter (natural order), 0 when none does
FirstIndex(matching) ==
    IF matching = {} THEN 0
    ELSE CHOOSE i \in matching : \A j \in matching : i <= j

RemoveAt(s, i) == SubSeq(s, 1, i - 1) \o SubSeq(s, i + 1, Len(s))

\* $sort: { time_failed: -1 } of $push: the array sorted by time_failed, descending
RECURSIVE SortFailures(_)
InsertFailure(sorted, f) ==
    LET k == Cardinality({i \in 1..Len(sorted) :
                            sorted[i].time_failed.date >= f.time_failed.date})
    IN SubSeq(sorted, 1, k) \o <<f>> \o SubSeq(sorted, k + 1, Len(sorted))
SortFailures(fs) ==
    IF fs = <<>> THEN <<>>
    ELSE InsertFailure(SortFailures(SubSeq(fs, 1, Len(fs) - 1)), fs[Len(fs)])

-----------------------------------------------------------------------------
(* Responses and the scan timer *)

NoResponse == [op |-> "none", success |-> TRUE, code |-> "none"]

Response(op, success, code) == [op |-> op, success |-> success, code |-> code]

\* a re-arm that is run twice
checkScheduleAt6AMTwice(ts, t) ==
    Append(Append(ts, t + TimeUntil(t)), t + TimeUntil(t))

\* setTimeout(callback, time_until)
checkScheduleAt6AM(ts, t) == Append(ts, t + TimeUntil(t))

\* the clock advances
Tick(d) ==
    /\ ticks < MaxTicks
    /\ now' = now + d
    /\ ticks' = ticks + 1
    /\ res' = NoResponse
    /\ settled' = <<>>
    /\ logged' = <<>>
    /\ UNCHANGED scans
    /\ UNCHANGED <<nreqs, timers, methods, schedule, transactions, calls, npays, requests,
                   hooks, defaults, changes>>

-----------------------------------------------------------------------------
(* The result arrays of a scan *)

\* promises, successes and failures of one _checkScheduledPayments call; promises
\* holds the pay() calls the scan pushed
NewScan(ids) == [promises |-> ids, successes |-> <<>>, failures |-> <<>>]

\* the .then and the .catch the scan chained to a pay() promise, lines 94-99
ScanSettle(scan, call, s) ==
    IF \A n \in 1..Len(scan.promises) : scan.promises[n] # call.id THEN scan
    ELSE IF s[1].ok
    THEN [scan EXCEPT !.successes = Append(@, s[1].data[1].merchant_uid)]
    ELSE [scan EXCEPT !.failures = Append(@, s[1].params[1].merchant_uid)]

\* the scans after a pay() call has settled as s, or has not settled (s empty)
ScansAfter(ss, call, s) ==
    IF s = <<>> THEN ss
    ELSE [n \in 1..Len(ss) |-> ScanSettle(ss[n], call, s)]

\* an aggregate that waits for the first settled promise only
ScanSettledAny(scan) ==
    \/ scan.promises = <<>>
    \/ Len(scan.successes) + Len(scan.failures) >= 1

\* Promise.all(promises) is fulfilled: every promise of the scan has settled
ScanSettled(scan) ==
    Len(scan.successes) + Len(scan.failures) = Len(scan.promises)

\* the scans that still wait
Unsettled(ss) == SelectSeq(ss, LAMBDA scan : ~ScanSettled(scan))

\* the .then of Promise.all: the counts and lines the scan logs, lines 105-108
Aggregate(ss) == SelectSeq(ss, LAMBDA scan : ScanSettled(scan))

-----------------------------------------------------------------------------
(* pay(payment_params) *)

\* _generateName(params)
_generateName(params) ==
    LET start == moment(params.pay_date)
        end == start + Cadence(params.billing_plan) * HoursPerWeek - full_day
    IN [short |-> <<"CAS#", params.business_id, start, end>>,
        long |-> <<"Castr subscription #", params.business_id, start, end,
                   params.billing_plan>>]

\* JSON.stringify of the custom_data object: a Date becomes its ISO string
JSONstringify(o) == [json |-> [o EXCEPT !.pay_date = toISOString(o.pay_date)]]

\* JSON.parse
JSONparse(s) == s.json

\* the promise pay() returns, before its first store lookup has answered
NewCall(id, params, src) ==
    [id |-> id, params |-> params, src |-> src, pc |-> "lookup", request |-> <<>>]

\* the charge request of pay(), lines 508-528
ChargeRequest(payment_params, default_method) ==
    LET name == _generateName(payment_params)
    IN [merchant_uid |-> payment_params.merchant_uid,
        customer_uid |-> default_method.customer_uid,
        name |-> name.short,
        amount |-> payment_params.amount,
        cancel_amount |-> payment_params.amount,
        vat |-> payment_params.vat,
        custom_data |-> JSONstringify(
            [business_id |-> payment_params.business_id,
             merchant_uid |-> payment_params.merchant_uid,
             customer_uid |-> default_method.customer_uid,
             name |-> name,
             type |-> payment_params.type,
             billing_plan |-> payment_params.billing_plan,
             pay_date |-> payment_params.pay_date,
             amount |-> payment_params.amount,
             cancel_amount |-> payment_params.amount,
             vat |-> payment_params.vat])]

\* reject(error) and resolve({ data }) of the promise
Rejected(call, code, message, params) ==
    <<[id |-> call.id, src |-> call.src, ok |-> FALSE, code |-> code,
       message |-> message, params |-> <<params>>, data |-> <<>>]>>

Resolved(call, data) ==
    <<[id |-> call.id, src |-> call.src, ok |-> TRUE, code |-> "none",
       message |-> "none", params |-> <<>>, data |-> <<data>>]>>

\* what the caller of pay() does with the settled promise: only subscribe answers
CallerResponse(s) ==
    IF s[1].src = "subscribe"
    THEN Response("subscribe", s[1].ok, IF s[1].ok THEN "none" ELSE s[1].message)
    ELSE NoResponse

\* a lookup that forgets default_method: true
IsDefaultOfAnyMethod(business_id, m) == m.business_id = business_id

\* the filter { business_id: business_id, default_method: true }
IsDefaultOf(business_id, m) == m.business_id = business_id /\ m.default_method

\* findOne of the default method answers: reject, or submit the charge request
PayLookup(i) ==
    /\ i \in 1..Len(calls)
    /\ calls[i].pc = "lookup"
    /\ LET p == calls[i].params
           k == FirstIndex({n \in 1..Len(methods) : IsDefaultOf(p.business_id, methods[n])})
       IN IF k = 0
          THEN /\ settled' = Rejected(calls[i], "castr_payment_error", "no_default", p)
               /\ calls' = RemoveAt(calls, i)
               /\ UNCHANGED requests
          ELSE /\ calls' = [calls EXCEPT ![i].pc = "gateway",
                                         ![i].request = <<ChargeRequest(p, methods[k])>>]
               /\ requests' = requests \cup {p.merchant_uid}
               /\ settled' = <<>>
    /\ res' = IF settled' = <<>> THEN NoResponse ELSE CallerResponse(settled')
    /\ scans' = Unsettled(ScansAfter(scans, calls[i], settled'))
    /\ logged' = Aggregate(ScansAfter(scans, calls[i], settled'))
    /\ UNCHANGED <<nreqs, now, ticks, timers, methods, schedule, transactions, npays,
                   hooks, defaults, changes>>

\* the gateway's answer to a charge request
GatewayResult(call, status, t) ==
    [status |-> status,
     imp_uid |-> call.id,
     merchant_uid |-> call.request[1].merchant_uid,
     custom_data |-> call.request[1].custom_data,
     paid_at |-> t,
     failed_at |-> t,
     fail_reason |-> IF status = "failed" THEN "declined" ELSE "none"]

\* a hook scheduled only after the failed-status check has let the result pass
ScheduleHookUnlessFailed(hs, iamport_result) ==
    IF status_type(iamport_result.status) = "FAILED" THEN hs
    ELSE Append(hs, [result |-> iamport_result, pc |-> "queued"])

\* setTimeout(this.paymentHook, 0, iamport_result)
ScheduleHook(hs, iamport_result) ==
    Append(hs, [result |-> iamport_result, pc |-> "queued"])

\* an outcome that resolves only a paid result
OutcomeRejectUnpaid(call, iamport_result) ==
    IF status_type(iamport_result.status) # "PAID"
    THEN Rejected(call, "null", iamport_result.fail_reason,
                  JSONparse(call.request[1].custom_data))
    ELSE Resolved(call, iamport_result)

\* the promise's outcome for a gateway result, lines 533-544
Outcome(call, iamport_result) ==
    IF status_type(iamport_result.status) = "FAILED"
    THEN Rejected(call, "null", iamport_result.fail_reason,
                  JSONparse(call.request[1].custom_data))
    ELSE Resolved(call, iamport_result)

\* subscribe.again(params) answers with a result
PayGatewayResult(i, status) ==
    /\ i \in 1..Len(calls)
    /\ calls[i].pc = "gateway"
    /\ LET iamport_result == GatewayResult(calls[i], status, now)
       IN /\ hooks' = ScheduleHook(hooks, iamport_result)
          /\ settled' = Outcome(calls[i], iamport_result)
    /\ calls' = RemoveAt(calls, i)
    /\ res' = CallerResponse(settled')
    /\ scans' = Unsettled(ScansAfter(scans, calls[i], settled'))
    /\ logged' = Aggregate(ScansAfter(scans, calls[i], settled'))
    /\ UNCHANGED <<nreqs, now, ticks, timers, methods, schedule, transactions, npays,
                   requests, defaults, changes>>

\* subscribe.again(params) fails at transport level
PayGatewayError(i) ==
    /\ i \in 1..Len(calls)
    /\ calls[i].pc = "gateway"
    /\ settled' = Rejected(calls[i], "gateway_code", "gateway_error",
                           [calls[i].request[1] EXCEPT
                                !.custom_data = JSONparse(@)])
    /\ calls' = RemoveAt(calls, i)
    /\ res' = CallerResponse(settled')
    /\ scans' = Unsettled(ScansAfter(scans, calls[i], settled'))
    /\ logged' = Aggregate(ScansAfter(scans, calls[i], settled'))
    /\ UNCHANGED <<nreqs, now, ticks, timers, methods, schedule, transactions, npays,
                   requests, hooks, defaults, changes>>

-----------------------------------------------------------------------------
(* paymentHook(iamport_result) *)

\* updateOne(filter, update): the first matching document becomes doc
UpdateAt(coll, k, doc) ==
    IF k = 0 THEN coll ELSE [coll EXCEPT ![k] = doc]

\* the first document that matches { merchant_uid: merchant_uid }, 0 when none does
FindMerchantUid(coll, merchant_uid) ==
    FirstIndex({n \in 1..Len(coll) : coll[n].merchant_uid = merchant_uid})

\* the payment-transactions document of a PAID confirmation, lines 628-644
Transaction(iamport_result, custom_data, status) ==
    [business_id |-> custom_data.business_id,
     imp_uid |-> iamport_result.imp_uid,
     merchant_uid |-> custom_data.merchant_uid,
     type |-> custom_data.type,
     name |-> custom_data.name,
     amount |-> custom_data.amount,
     vat |-> custom_data.vat,
     customer_uid |-> custom_data.customer_uid,
     status |-> status,
     pay_date |-> custom_data.pay_date,
     time_paid |-> toDate(iamport_result.paid_at)]

\* the failure record of a FAILED confirmation, lines 700-705
Failure(iamport_result, custom_data) ==
    [imp_uid |-> iamport_result.imp_uid,
     params |-> custom_data,
     reason |-> iamport_result.fail_reason,
     time_failed |-> toDate(iamport_result.failed_at)]

\* an insert that skips a gateway transaction id the collection already holds
insertOneOnce(coll, doc) ==
    IF \E n \in 1..Len(coll) : coll[n].imp_uid = doc.imp_uid THEN coll
    ELSE Append(coll, doc)

\* collection('payment-transactions').insertOne(doc)
insertOne(coll, doc) == Append(coll, doc)

\* an update that sets the status and pushes nothing
PushFailureStatusOnly(doc, status, failure) == [doc EXCEPT !.status = status]

\* a push that puts the new failure first and does not sort
PushFailureFirst(doc, status, failure) ==
    [doc EXCEPT !.status = status, !.failures = <<failure>> \o doc.failures]

\* $set: { status }, $push: { failures: { $each: [failure], $sort: { time_failed: -1 } } }
PushFailure(doc, status, failure) ==
    [doc EXCEPT !.status = status,
                !.failures = SortFailures(Append(doc.failures, failure))]

\* the next cycle's payment-schedule document, lines 663-682
NextEntry(custom_data) ==
    LET next_charge_num == parseInt(TrailingDigits(custom_data.merchant_uid)) + 1
    IN [merchant_uid |-> MerchantUid(custom_data.business_id, next_charge_num),
        business_id |-> custom_data.business_id,
        schedule |-> toDate(NextPayDate(custom_data.pay_date, custom_data.billing_plan)),
        amount |-> custom_data.amount,
        vat |-> custom_data.vat,
        billing_plan |-> custom_data.billing_plan,
        status |-> "PENDING",
        failures |-> <<>>]

\* the timer task runs paymentHook: the switch and its first store operation
paymentHook(h) ==
    /\ h \in 1..Len(hooks)
    /\ hooks[h].pc = "queued"
    /\ LET iamport_result == hooks[h].result
           status == status_type(iamport_result.status)
           custom_data == JSONparse(iamport_result.custom_data)
       IN CASE status = "PAID" ->
                 /\ transactions' =
                        insertOne(transactions,
                                  Transaction(iamport_result, custom_data, status))
                 /\ hooks' = [hooks EXCEPT ![h].pc = "tx_inserted"]
                 /\ UNCHANGED schedule
            [] status = "FAILED" /\ custom_data.type = payment_type.scheduled ->
                 /\ LET k == FindMerchantUid(schedule, custom_data.merchant_uid)
                    IN schedule' =
                          IF k = 0 THEN schedule
                          ELSE UpdateAt(schedule, k,
                                  PushFailure(schedule[k], status,
                                              Failure(iamport_result, custom_data)))
                 /\ hooks' = RemoveAt(hooks, h)
                 /\ UNCHANGED transactions
            [] OTHER ->
                 /\ hooks' = RemoveAt(hooks, h)
                 /\ UNCHANGED <<schedule, transactions>>
    /\ res' = NoResponse
    /\ settled' = <<>>
    /\ logged' = <<>>
    /\ UNCHANGED scans
    /\ UNCHANGED <<nreqs, now, ticks, timers, methods, calls, npays, requests, defaults,
                   changes>>

\* $set: { status } of the PAID branch
SetStatus(doc, status) == [doc EXCEPT !.status = status]

\* the .then chain after the transaction insert: mark the entry PAID when the
\* intent was SCHEDULED, then insert the next cycle's entry
paymentHookThen(h) ==
    /\ h \in 1..Len(hooks)
    /\ hooks[h].pc = "tx_inserted"
    /\ LET custom_data == JSONparse(hooks[h].result.custom_data)
           updated == IF custom_data.type = payment_type.scheduled
                      THEN LET k == FindMerchantUid(schedule, custom_data.merchant_uid)
                           IN IF k = 0 THEN schedule
                              ELSE UpdateAt(schedule, k, SetStatus(schedule[k], "PAID"))
                      ELSE schedule
       IN schedule' = IF TrailingDigits(custom_data.merchant_uid) = <<>>
                      THEN updated
                      ELSE Append(updated, NextEntry(custom_data))
    /\ hooks' = RemoveAt(hooks, h)
    /\ res' = NoResponse
    /\ settled' = <<>>
    /\ logged' = <<>>
    /\ UNCHANGED scans
    /\ UNCHANGED <<nreqs, now, ticks, timers, methods, transactions, calls, npays,
                   requests, defaults, changes>>

\* the gateway delivers once more a confirmation whose reconciliation is under
\* way: paymentHook is called again with the same iamport_result
Redeliver(h) ==
    /\ h \in 1..Len(hooks)
    /\ nreqs < MaxRequests
    /\ nreqs' = nreqs + 1
    /\ hooks' = ScheduleHook(hooks, hooks[h].result)
    /\ res' = NoResponse
    /\ settled' = <<>>
    /\ logged' = <<>>
    /\ UNCHANGED <<now, ticks, timers, methods, schedule, transactions, calls, npays,
                   requests, defaults, changes, scans>>

-----------------------------------------------------------------------------
(* The daily scan *)

\* a scan filter that also takes FAILED entries
IsDueOrFailed(doc, t) ==
    doc.status \in {"PENDING", "FAILED"} /\ doc.schedule.date <= StartOfLocalDay(t)

\* the filter { status: PENDING, schedule: { $lte: start of today (Seoul) } }
IsDue(doc, t) ==
    doc.status = "PENDING" /\ doc.schedule.date <= StartOfLocalDay(t)

\* schedule_params of the scan, lines 83-91
ScanParams(document) ==
    [business_id |-> document.business_id,
     merchant_uid |-> document.merchant_uid,
     type |-> payment_type.scheduled,
     billing_plan |-> document.billing_plan,
     pay_date |-> document.schedule,
     amount |-> document.amount,
     vat |-> document.vat]

\* the documents the scan's cursor iterates
DueEntries(coll, t) == SelectSeq(coll, LAMBDA d : IsDue(d, t))

\* a scan timer fires: every due entry goes to pay(), then the timer is re-armed
_checkScheduledPayments(k) ==
    /\ k \in 1..Len(timers)
    /\ timers[k] <= now
    /\ LET due == DueEntries(schedule, now)
       IN /\ npays + Len(due) <= MaxPays
          /\ calls' = calls \o [i \in 1..Len(due) |->
                                   NewCall(npays + i, ScanParams(due[i]), "scan")]
          /\ npays' = npays + Len(due)
          /\ LET scan == NewScan([i \in 1..Len(due) |-> npays + i])
             IN /\ scans' = Unsettled(Append(scans, scan))
                /\ logged' = Aggregate(<<scan>>)
    /\ timers' = checkScheduleAt6AM(RemoveAt(timers, k), now)
    /\ res' = NoResponse
    /\ settled' = <<>>
    /\ UNCHANGED <<nreqs, now, ticks, methods, schedule, transactions, requests, hooks,
                   defaults, changes>>

-----------------------------------------------------------------------------
(* Payment methods *)

\* the upsert of createPaymentMethod, lines 232-249
UpsertMethod(coll, business_id, customer_uid) ==
    LET k == FirstIndex({n \in 1..Len(coll) : /\ coll[n].business_id = business_id
                                                /\ coll[n].customer_uid = customer_uid})
    IN IF k = 0
       THEN Append(coll, [business_id |-> business_id, customer_uid |-> customer_uid,
                          default_method |-> FALSE])
       ELSE [coll EXCEPT ![k].default_method = FALSE]

createPaymentMethod(business_id, card, gateway_ok) ==
    /\ nreqs < MaxRequests
    /\ nreqs' = nreqs + 1
    /\ IF card.len # 4
       THEN /\ res' = Response("createPaymentMethod", FALSE, "castr_payment_error")
            /\ UNCHANGED methods
       ELSE IF gateway_ok
       THEN /\ methods' = UpsertMethod(methods, business_id,
                                       CustomerUid(business_id, card.last))
            /\ res' = Response("createPaymentMethod", TRUE, "none")
       ELSE /\ res' = Response("createPaymentMethod", FALSE, "gateway_error")
            /\ UNCHANGED methods
    /\ settled' = <<>>
    /\ logged' = <<>>
    /\ UNCHANGED scans
    /\ UNCHANGED <<now, ticks, timers, schedule, transactions, calls, npays,
                   requests, hooks, defaults, changes>>

\* deleteOne({ customer_uid })
DeleteMethod(coll, customer_uid) ==
    LET k == FirstIndex({n \in 1..Len(coll) : coll[n].customer_uid = customer_uid})
    IN IF k = 0 THEN coll ELSE RemoveAt(coll, k)

deletePaymentMethod(customer_uid, gateway_ok) ==
    /\ nreqs < MaxRequests
    /\ nreqs' = nreqs + 1
    /\ IF gateway_ok
       THEN /\ methods' = DeleteMethod(methods, customer_uid)
            /\ res' = Response("deletePaymentMethod", TRUE, "none")
       ELSE /\ res' = Response("deletePaymentMethod", FALSE, "gateway_error")
            /\ UNCHANGED methods
    /\ settled' = <<>>
    /\ logged' = <<>>
    /\ UNCHANGED scans
    /\ UNCHANGED <<now, ticks, timers, schedule, transactions, calls, npays,
                   requests, hooks, defaults, changes>>

\* updateOne({ business_id, default_method: true }, { $set: { default_method: false } })
UnsetDefault(coll, business_id) ==
    LET k == FirstIndex({n \in 1..Len(coll) : IsDefaultOf(business_id, coll[n])})
    IN IF k = 0 THEN coll ELSE [coll EXCEPT ![k].default_method = FALSE]

\* the filter of the second update, { customer_uid: customer_uid }
IsMethod(business_id, customer_uid, m) == m.customer_uid = customer_uid

\* setAsDefault is called: the first update unsets the current default
setAsDefault(business_id, customer_uid) ==
    /\ nreqs < MaxRequests
    /\ nreqs' = nreqs + 1
    /\ methods' = UnsetDefault(methods, business_id)
    /\ defaults' = Append(defaults, [business_id |-> business_id,
                                     customer_uid |-> customer_uid, pc |-> "set"])
    /\ res' = NoResponse
    /\ settled' = <<>>
    /\ logged' = <<>>
    /\ UNCHANGED scans
    /\ UNCHANGED <<now, ticks, timers, schedule, transactions, calls, npays,
                   requests, hooks, changes>>

\* the first update's callback: the second update sets the given method as
\* default; no match is answered with an error, a match with success
setAsDefaultSet(j) ==
    /\ j \in 1..Len(defaults)
    /\ defaults[j].pc = "set"
    /\ LET k == FirstIndex({n \in 1..Len(methods) :
                              IsMethod(defaults[j].business_id, defaults[j].customer_uid,
                                       methods[n])})
       IN IF k = 0
          THEN /\ res' = Response("setAsDefault", FALSE, "castr_payment_error")
               /\ defaults' = RemoveAt(defaults, j)
               /\ UNCHANGED methods
          ELSE /\ methods' = [methods EXCEPT ![k].default_method = TRUE]
               /\ defaults' = [defaults EXCEPT ![j].pc = "find"]
               /\ res' = Response("setAsDefault", TRUE, "none")
    /\ settled' = <<>>
    /\ logged' = <<>>
    /\ UNCHANGED scans
    /\ UNCHANGED <<nreqs, now, ticks, timers, schedule, transactions, calls, npays,
                   requests, hooks, changes>>

\* the filter { business_id, status: FAILED }
IsFailedOf(business_id, doc) ==
    doc.business_id = business_id /\ doc.status = "FAILED"

\* a retry that keeps the entry's own schedule date as pay_date
RetryParamsOldDate(failed_payment, t) ==
    [business_id |-> failed_payment.business_id,
     merchant_uid |-> failed_payment.merchant_uid,
     type |-> payment_type.scheduled,
     billing_plan |-> failed_payment.billing_plan,
     pay_date |-> failed_payment.schedule,
     amount |-> failed_payment.amount,
     vat |-> failed_payment.vat]

\* schedule_params of the retry, lines 350-358
RetryParams(failed_payment, t) ==
    [business_id |-> failed_payment.business_id,
     merchant_uid |-> failed_payment.merchant_uid,
     type |-> payment_type.scheduled,
     billing_plan |-> failed_payment.billing_plan,
     pay_date |-> toDate(t),
     amount |-> failed_payment.amount,
     vat |-> failed_payment.vat]

\* findOne of a FAILED entry answers: the entry, if any, goes to pay()
setAsDefaultRetry(j) ==
    /\ j \in 1..Len(defaults)
    /\ defaults[j].pc = "find"
    /\ LET k == FirstIndex({n \in 1..Len(schedule) :
                              IsFailedOf(defaults[j].business_id, schedule[n])})
       IN IF k = 0
          THEN UNCHANGED <<calls, npays>>
          ELSE /\ npays < MaxPays
               /\ calls' = Append(calls, NewCall(npays + 1,
                                                 RetryParams(schedule[k], now), "retry"))
               /\ npays' = npays + 1
    /\ defaults' = RemoveAt(defaults, j)
    /\ res' = NoResponse
    /\ settled' = <<>>
    /\ logged' = <<>>
    /\ UNCHANGED scans
    /\ UNCHANGED <<nreqs, now, ticks, timers, methods, schedule, transactions, requests,
                   hooks, changes>>

-----------------------------------------------------------------------------
(* Subscriptions *)

\* req.body.charge_num || 0
ChargeNum(charge_num) == IF charge_num = <<>> THEN 0 ELSE charge_num[1]

\* subscription_params, lines 398-409
SubscriptionParams(business_id, billing_plan, amount, vat, charge_num, t) ==
    [business_id |-> business_id,
     merchant_uid |-> MerchantUid(business_id, ChargeNum(charge_num)),
     type |-> payment_type.initial,
     billing_plan |-> billing_plan,
     pay_date |-> toDate(t),
     amount |-> amount,
     vat |-> vat]

\* a validation that lets every plan through
ValidPlanAny(billing_plan) == TRUE

\* billing_plan_type.hasOwnProperty(billing_plan)
ValidPlan(billing_plan) == billing_plan \in DOMAIN billing_plan_type

subscribe(business_id, billing_plan, amount, vat, charge_num) ==
    /\ nreqs < MaxRequests
    /\ nreqs' = nreqs + 1
    /\ IF ~ValidPlan(billing_plan)
       THEN /\ res' = Response("subscribe", FALSE, "castr_payment_error")
            /\ UNCHANGED <<calls, npays>>
       ELSE /\ npays < MaxPays
            /\ calls' = Append(calls, NewCall(npays + 1,
                   SubscriptionParams(business_id, billing_plan, amount, vat,
                                      charge_num, now), "subscribe"))
            /\ npays' = npays + 1
            /\ res' = NoResponse
    /\ settled' = <<>>
    /\ logged' = <<>>
    /\ UNCHANGED scans
    /\ UNCHANGED <<now, ticks, timers, methods, schedule, transactions, requests,
                   hooks, defaults, changes>>

\* a filter that forgets business_id
IsActiveOfAnyBusiness(business_id, doc) == doc.status \in {"PENDING", "FAILED"}

\* the filter { business_id, status: { $in: [PENDING, FAILED] } }
IsActiveOf(business_id, doc) ==
    doc.business_id = business_id /\ doc.status \in {"PENDING", "FAILED"}

\* changeSubscription is called and findOne of the active entry answers
changeSubscription(business_id, new_billing_plan, new_amount) ==
    /\ nreqs < MaxRequests
    /\ nreqs' = nreqs + 1
    /\ LET k == FirstIndex({n \in 1..Len(schedule) : IsActiveOf(business_id, schedule[n])})
       IN IF k = 0
          THEN /\ res' = Response("changeSubscription", FALSE, "no_active_schedule")
               /\ UNCHANGED changes
          ELSE /\ changes' = Append(changes,
                      [business_id |-> business_id,
                       merchant_uid |-> schedule[k].merchant_uid,
                       new_billing_plan |-> new_billing_plan,
                       new_amount |-> new_amount])
               /\ res' = NoResponse
    /\ settled' = <<>>
    /\ logged' = <<>>
    /\ UNCHANGED scans
    /\ UNCHANGED <<now, ticks, timers, methods, schedule, transactions, calls,
                   npays, requests, hooks, defaults>>

\* $set: { billing_plan, amount }
SetPlan(doc, new_billing_plan, new_amount) ==
    [doc EXCEPT !.billing_plan = new_billing_plan, !.amount = new_amount]

\* the filter of changeSubscription's update, { merchant_uid }
IsChanged(change, doc) == doc.merchant_uid = change.merchant_uid

\* updateOne({ merchant_uid }, { $set: { billing_plan, amount } }) and the answer
changeSubscriptionUpdate(j) ==
    /\ j \in 1..Len(changes)
    /\ LET k == FirstIndex({n \in 1..Len(schedule) : IsChanged(changes[j], schedule[n])})
       IN schedule' =
             IF k = 0 THEN schedule
             ELSE UpdateAt(schedule, k,
                     SetPlan(schedule[k], changes[j].new_billing_plan,
                             changes[j].new_amount))
    /\ changes' = RemoveAt(changes, j)
    /\ res' = Response("changeSubscription", TRUE, "none")
    /\ settled' = <<>>
    /\ logged' = <<>>
    /\ UNCHANGED scans
    /\ UNCHANGED <<nreqs, now, ticks, timers, methods, transactions, calls, npays,
                   requests, hooks, defaults>>

-----------------------------------------------------------------------------
(* Initial state: the scheduler started at time 0, over empty collections, over
   those of a business with a default method, or over those of a business that
   subscribed earlier *)

\* the collections of a business that subscribed earlier: its default method,
\* the transaction of its initial charge (paid at time 0 under gateway id 0)
\* and the entry of its next cycle, as subscribe and paymentHook leave them
SubscribedMethod(b) ==
    [business_id |-> b, customer_uid |-> CustomerUid(b, "1111"), default_method |-> TRUE]

SubscribedRequest(b) ==
    ChargeRequest(SubscriptionParams(b, "4_WEEK", 1000, 100, <<>>, 0), SubscribedMethod(b))

SubscribedResult(b) ==
    [status |-> "paid", imp_uid |-> 0, merchant_uid |-> SubscribedRequest(b).merchant_uid,
     custom_data |-> SubscribedRequest(b).custom_data,
     paid_at |-> 0, failed_at |-> 0, fail_reason |-> "none"]

InitSubscribed(b) ==
    /\ methods = <<SubscribedMethod(b)>>
    /\ transactions = <<Transaction(SubscribedResult(b),
                                    JSONparse(SubscribedResult(b).custom_data), "PAID")>>
    /\ schedule = <<NextEntry(JSONparse(SubscribedResult(b).custom_data))>>
    /\ requests = {SubscribedRequest(b).merchant_uid}

InitEmpty ==
    /\ methods = <<>>
    /\ transactions = <<>>
    /\ schedule = <<>>
    /\ requests = {}

\* the collections of a business that has registered a default method only
InitRegistered(b) ==
    /\ methods = <<SubscribedMethod(b)>>
    /\ transactions = <<>>
    /\ schedule = <<>>
    /\ requests = {}

Init ==
    /\ now = 0
    /\ ticks = 0
    /\ timers = checkScheduleAt6AM(<<>>, 0)
    /\ InitEmpty \/ InitRegistered("B1") \/ InitSubscribed("B1")
    /\ calls = <<>>
    /\ npays = 0
    /\ nreqs = 0
    /\ hooks = <<>>
    /\ defaults = <<>>
    /\ changes = <<>>
    /\ res = NoResponse
    /\ settled = <<>>
    /\ scans = <<>>
    /\ logged = <<>>

-----------------------------------------------------------------------------
(* The system *)

Next ==
    \/ \E d \in TickSteps : Tick(d)
    \/ \E k \in 1..Len(timers) : _checkScheduledPayments(k)
    \/ \E i \in 1..Len(calls) : PayLookup(i)
    \/ \E i \in 1..Len(calls), st \in GatewayStatus : PayGatewayResult(i, st)
    \/ \E i \in 1..Len(calls) : PayGatewayError(i)
    \/ \E h \in 1..Len(hooks) : paymentHook(h)
    \/ \E h \in 1..Len(hooks) : paymentHookThen(h)
    \/ \E b \in Business, c \in Cards, ok \in BOOLEAN : createPaymentMethod(b, c, ok)
    \/ \E c \in CustomerUids, ok \in BOOLEAN : deletePaymentMethod(c, ok)
    \/ \E b \in Business, c \in CustomerUids : setAsDefault(b, c)
    \/ \E j \in 1..Len(defaults) : setAsDefaultSet(j)
    \/ \E j \in 1..Len(defaults) : setAsDefaultRetry(j)
    \/ \E b \in Business, p \in SubscribePlans, a \in Amounts, v \in Vats,
          n \in ChargeNums : subscribe(b, p, a, v, n)
    \/ \E b \in ChangeBusiness, p \in ChangePlans, a \in ChangeAmounts :
          changeSubscription(b, p, a)
    \/ \E j \in 1..Len(changes) : changeSubscriptionUpdate(j)

Spec == Init /\ [][Next]_vars

-----------------------------------------------------------------------------
(* The payment-method handlers alone, over two businesses with two registered
   methods each *)

MethodBusiness == {"B1", "B2"}
MethodLast4 == {"1111", "2222"}
MethodCards == {[last |-> "1111", len |-> 4], [last |-> "2222", len |-> 4]}
MethodCustomerUids == {CustomerUid(b, d) : b \in MethodBusiness, d \in MethodLast4}
\* req.params.customer_uid of setAsDefault: a registered token, or one that no
\* card of MethodCards gives
UnknownCustomerUid == CustomerUid("B1", "9999")
DefaultCustomerUids == MethodCustomerUids \cup {UnknownCustomerUid}

InitMethods ==
    /\ now = 0
    /\ ticks = 0
    /\ timers = checkScheduleAt6AM(<<>>, 0)
    /\ methods = <<[business_id |-> "B1", customer_uid |-> CustomerUid("B1", "1111"),
                    default_method |-> TRUE],
                   [business_id |-> "B1", customer_uid |-> CustomerUid("B1", "2222"),
                    default_method |-> FALSE],
                   [business_id |-> "B2", customer_uid |-> CustomerUid("B2", "1111"),
                    default_method |-> TRUE],
                   [business_id |-> "B2", customer_uid |-> CustomerUid("B2", "2222"),
                    default_method |-> FALSE]>>
    /\ transactions = <<>>
    /\ schedule = <<>>
    /\ requests = {}
    /\ calls = <<>>
    /\ npays = 0
    /\ nreqs = 0
    /\ hooks = <<>>
    /\ defaults = <<>>
    /\ changes = <<>>
    /\ res = NoResponse
    /\ settled = <<>>
    /\ scans = <<>>
    /\ logged = <<>>

NextMethods ==
    \/ \E b \in MethodBusiness, c \in MethodCards, ok \in BOOLEAN :
          createPaymentMethod(b, c, ok)
    \/ \E c \in MethodCustomerUids, ok \in BOOLEAN : deletePaymentMethod(c, ok)
    \/ \E b \in MethodBusiness, c \in DefaultCustomerUids : setAsDefault(b, c)
    \/ \E j \in 1..Len(defaults) : setAsDefaultSet(j)
    \/ \E j \in 1..Len(defaults) : setAsDefaultRetry(j)

SpecMethods == InitMethods /\ [][NextMethods]_vars

-----------------------------------------------------------------------------
(* One subscription of a business that has a default method, with a gateway
   that accepts every charge.  The store, the gateway and the timers answer:
   every step that stays possible is eventually taken. *)

SubscriptionSteps == {24, 695}

InitSubscription ==
    /\ now = 0
    /\ ticks = 0
    /\ timers = checkScheduleAt6AM(<<>>, 0)
    /\ InitRegistered("B1")
    /\ calls = <<>>
    /\ npays = 0
    /\ nreqs = 0
    /\ hooks = <<>>
    /\ defaults = <<>>
    /\ changes = <<>>
    /\ res = NoResponse
    /\ settled = <<>>
    /\ scans = <<>>
    /\ logged = <<>>

\* the one request of the scenario: POST subscribe for B1, plan 4_WEEK, amount 1000
SubscribeOnce ==
    /\ nreqs = 0
    /\ subscribe("B1", "4_WEEK", 1000, 100, <<>>)

NextSubscription ==
    \/ \E d \in SubscriptionSteps : Tick(d)
    \/ \E k \in 1..Len(timers) : _checkScheduledPayments(k)
    \/ SubscribeOnce
    \/ \E i \in 1..Len(calls) : PayLookup(i)
    \/ \E i \in 1..Len(calls) : PayGatewayResult(i, "paid")
    \/ \E h \in 1..Len(hooks) : paymentHook(h)
    \/ \E h \in 1..Len(hooks) : paymentHookThen(h)

FairSubscription ==
    /\ WF_vars(\E k \in 1..Len(timers) : _checkScheduledPayments(k))
    /\ WF_vars(\E i \in 1..Len(calls) : PayLookup(i))
    /\ WF_vars(\E i \in 1..Len(calls) : PayGatewayResult(i, "paid"))
    /\ WF_vars(\E h \in 1..Len(hooks) : paymentHook(h))
    /\ WF_vars(\E h \in 1..Len(hooks) : paymentHookThen(h))

SpecSubscription == InitSubscription /\ [][NextSubscription]_vars /\ FairSubscription

-----------------------------------------------------------------------------
(* The scan timer alone: the scheduler is started at any hour of two days, over
   empty collections *)

ClockStarts == 0..47
ClockSteps == {1, 24}

InitClock ==
    /\ now \in ClockStarts
    /\ ticks = 0
    /\ timers = checkScheduleAt6AM(<<>>, now)
    /\ InitEmpty
    /\ calls = <<>>
    /\ npays = 0
    /\ nreqs = 0
    /\ hooks = <<>>
    /\ defaults = <<>>
    /\ changes = <<>>
    /\ res = NoResponse
    /\ settled = <<>>
    /\ scans = <<>>
    /\ logged = <<>>

NextClock ==
    \/ \E d \in ClockSteps : Tick(d)
    \/ \E k \in 1..Len(timers) : _checkScheduledPayments(k)

SpecClock == InitClock /\ [][NextClock]_vars

-----------------------------------------------------------------------------
(* The scan over two businesses that subscribed earlier: both entries fall due
   on the same day, the gateway answers anything and a default method may be
   deleted meanwhile *)

ScanCustomerUids == {CustomerUid("B1", "1111"), CustomerUid("B2", "1111")}

\* the second business's initial charge was paid under another gateway id
SubscribedResultTwo(b) == [SubscribedResult(b) EXCEPT !.imp_uid = -1]

InitScan ==
    /\ now = 0
    /\ ticks = 0
    /\ timers = checkScheduleAt6AM(<<>>, 0)
    /\ methods = <<SubscribedMethod("B1"), SubscribedMethod("B2")>>
    /\ transactions =
          <<Transaction(SubscribedResult("B1"),
                        JSONparse(SubscribedResult("B1").custom_data), "PAID"),
            Transaction(SubscribedResultTwo("B2"),
                        JSONparse(SubscribedResultTwo("B2").custom_data), "PAID")>>
    /\ schedule = <<NextEntry(JSONparse(SubscribedResult("B1").custom_data)),
                    NextEntry(JSONparse(SubscribedResultTwo("B2").custom_data))>>
    /\ requests = {SubscribedRequest("B1").merchant_uid,
                   SubscribedRequest("B2").merchant_uid}
    /\ calls = <<>>
    /\ npays = 0
    /\ nreqs = 0
    /\ hooks = <<>>
    /\ defaults = <<>>
    /\ changes = <<>>
    /\ res = NoResponse
    /\ settled = <<>>
    /\ scans = <<>>
    /\ logged = <<>>

NextScan ==
    \/ \E d \in TickSteps : Tick(d)
    \/ \E k \in 1..Len(timers) : _checkScheduledPayments(k)
    \/ \E i \in 1..Len(calls) : PayLookup(i)
    \/ \E i \in 1..Len(calls), st \in GatewayStatus : PayGatewayResult(i, st)
    \/ \E i \in 1..Len(calls) : PayGatewayError(i)
    \/ \E h \in 1..Len(hooks) : paymentHook(h)
    \/ \E h \in 1..Len(hooks) : paymentHookThen(h)
    \/ \E c \in ScanCustomerUids, ok \in BOOLEAN : deletePaymentMethod(c, ok)

SpecScan == InitScan /\ [][NextScan]_vars

-----------------------------------------------------------------------------
(* Confirmation delivery: subscribe, the scan and the reconciler of a business
   that has a default method, with a gateway that answers every charge request
   and may deliver a confirmation again *)

NextDelivery ==
    \/ \E d \in TickSteps : Tick(d)
    \/ \E k \in 1..Len(timers) : _checkScheduledPayments(k)
    \/ \E i \in 1..Len(calls) : PayLookup(i)
    \/ \E i \in 1..Len(calls), st \in GatewayStatus : PayGatewayResult(i, st)
    \/ \E h \in 1..Len(hooks) : paymentHook(h)
    \/ \E h \in 1..Len(hooks) : paymentHookThen(h)
    \/ \E h \in 1..Len(hooks) : Redeliver(h)
    \/ \E b \in Business, p \in SubscribePlans, a \in Amounts, v \in Vats,
          n \in ChargeNums : subscribe(b, p, a, v, n)

InitDelivery ==
    /\ now = 0
    /\ ticks = 0
    /\ timers = checkScheduleAt6AM(<<>>, 0)
    /\ InitRegistered("B1") \/ InitSubscribed("B1")
    /\ calls = <<>>
    /\ npays = 0
    /\ nreqs = 0
    /\ hooks = <<>>
    /\ defaults = <<>>
    /\ changes = <<>>
    /\ res = NoResponse
    /\ settled = <<>>
    /\ scans = <<>>
    /\ logged = <<>>

SpecDelivery == InitDelivery /\ [][NextDelivery]_vars

-----------------------------------------------------------------------------
(* The scan and the setAsDefault retry of a business that subscribed twice at
   time 0, to 52_WEEK and then to 4_WEEK, both initial charges paid: subscribe
   gave both charges the merchant_uid B1_ch0 and the reconciler inserted an
   entry B1_ch1 for each *)

ResubscribedRequest(b, plan) ==
    ChargeRequest(SubscriptionParams(b, plan, 1000, 100, <<>>, 0), SubscribedMethod(b))

ResubscribedResult(b, plan, imp_uid) ==
    [status |-> "paid", imp_uid |-> imp_uid,
     merchant_uid |-> ResubscribedRequest(b, plan).merchant_uid,
     custom_data |-> ResubscribedRequest(b, plan).custom_data,
     paid_at |-> 0, failed_at |-> 0, fail_reason |-> "none"]

InitResubscribed(b) ==
    /\ methods = <<SubscribedMethod(b)>>
    /\ transactions =
          <<Transaction(ResubscribedResult(b, "52_WEEK", -1),
                        JSONparse(ResubscribedResult(b, "52_WEEK", -1).custom_data), "PAID"),
            Transaction(ResubscribedResult(b, "4_WEEK", 0),
                        JSONparse(ResubscribedResult(b, "4_WEEK", 0).custom_data), "PAID")>>
    /\ schedule =
          <<NextEntry(JSONparse(ResubscribedResult(b, "52_WEEK", -1).custom_data)),
            NextEntry(JSONparse(ResubscribedResult(b, "4_WEEK", 0).custom_data))>>
    /\ requests = {ResubscribedRequest(b, "4_WEEK").merchant_uid}

InitRetry ==
    /\ now = 0
    /\ ticks = 0
    /\ timers = checkScheduleAt6AM(<<>>, 0)
    /\ InitSubscribed("B1") \/ InitResubscribed("B1")
    /\ calls = <<>>
    /\ npays = 0
    /\ nreqs = 0
    /\ hooks = <<>>
    /\ defaults = <<>>
    /\ changes = <<>>
    /\ res = NoResponse
    /\ settled = <<>>
    /\ scans = <<>>
    /\ logged = <<>>

NextRetry ==
    \/ \E d \in TickSteps : Tick(d)
    \/ \E k \in 1..Len(timers) : _checkScheduledPayments(k)
    \/ \E i \in 1..Len(calls) : PayLookup(i)
    \/ \E i \in 1..Len(calls), st \in GatewayStatus : PayGatewayResult(i, st)
    \/ \E i \in 1..Len(calls) : PayGatewayError(i)
    \/ \E h \in 1..Len(hooks) : paymentHook(h)
    \/ \E h \in 1..Len(hooks) : paymentHookThen(h)
    \/ \E b \in Business, c \in CustomerUids : setAsDefault(b, c)
    \/ \E j \in 1..Len(defaults) : setAsDefaultSet(j)
    \/ \E j \in 1..Len(defaults) : setAsDefaultRetry(j)

SpecRetry == InitRetry /\ [][NextRetry]_vars

-----------------------------------------------------------------------------
(* Properties *)

\* the catalog cadence of a plan identifier, in weeks
CatalogWeeks(plan) ==
    CASE plan = "4_WEEK" -> {4} [] plan = "26_WEEK" -> {26} [] plan = "52_WEEK" -> {52}
      [] OTHER -> {}

\* C1: every PAID confirmation the reconciler finishes adds exactly one schedule
\* entry; it is PENDING and dated at the local midnight of the day that lies the
\* plan's cadence (4, 26 or 52 weeks) after the intended pay date.
C1_NextCycleEntry ==
    [][\A h \in 1..Len(hooks) :
          (hooks[h].pc = "tx_inserted" /\ hooks' = RemoveAt(hooks, h)) =>
             LET cd == hooks[h].result.custom_data.json
                 paid == cd.pay_date.iso
             IN /\ Len(schedule') = Len(schedule) + 1
                /\ schedule'[Len(schedule')].status = "PENDING"
                /\ \E w \in CatalogWeeks(cd.billing_plan) :
                      LET next == schedule'[Len(schedule')].schedule.date
                      IN /\ (next + 9) % 24 = 0
                         /\ next <= paid + w * 7 * 24
                         /\ paid + w * 7 * 24 < next + 24]_vars

\* C2: an entry's status moves only PENDING->PAID, PENDING->FAILED, FAILED->PAID
\* or FAILED->FAILED; a PAID entry keeps its status.
C2_StatusTransitions ==
    [][\A k \in 1..Len(schedule) :
          \/ schedule'[k].status = schedule[k].status
          \/ <<schedule[k].status, schedule'[k].status>> \in
                {<<"PENDING", "PAID">>, <<"PENDING", "FAILED">>, <<"FAILED", "PAID">>}]_vars

\* C3: when no setAsDefault call is in progress, every business has at most one
\* payment method with default_method = true.
C3_SingleDefault ==
    defaults = <<>> =>
        \A b \in MethodBusiness :
            Cardinality({i \in 1..Len(methods) :
                            methods[i].business_id = b /\ methods[i].default_method}) <= 1

\* C4: a pay call that settles on a gateway response (resolved, or rejected as
\* declined) schedules exactly one paymentHook invocation, with that response; a
\* pay call rejected for a missing default method or a transport error, and every
\* other step, schedules none.
C4_OneHookPerResponse ==
    [][IF settled' # <<>> /\ settled'[1].message \notin {"no_default", "gateway_error"}
       THEN /\ Len(hooks') = Len(hooks) + 1
            /\ SubSeq(hooks', 1, Len(hooks)) = hooks
            /\ hooks'[Len(hooks')].pc = "queued"
            /\ hooks'[Len(hooks')].result.imp_uid = settled'[1].id
            /\ IF settled'[1].ok
               THEN hooks'[Len(hooks')].result = settled'[1].data[1]
               ELSE /\ hooks'[Len(hooks')].result.status = "failed"
                    /\ hooks'[Len(hooks')].result.fail_reason = settled'[1].message
                    /\ hooks'[Len(hooks')].result.custom_data.json = settled'[1].params[1]
       ELSE Len(hooks') <= Len(hooks)]_vars

C4_Witness ==
    /\ settled # <<>>
    /\ ~settled[1].ok
    /\ settled[1].message = "declined"
    /\ \E h \in 1..Len(hooks) :
          hooks[h].pc = "queued" /\ hooks[h].result.imp_uid = settled[1].id

NoDefault(business_id) ==
    \A i \in 1..Len(methods) :
        methods[i].business_id = business_id => ~methods[i].default_method

InLookup(cs, id) == \E j \in 1..Len(cs) : cs[j].id = id /\ cs[j].pc = "lookup"

\* C5: when the lookup of a pay call answers for a business without a default
\* method, the promise is rejected with the no-default-method error, no charge
\* request reaches the gateway, no paymentHook is scheduled and no collection
\* changes.
C5_NoDefaultRejects ==
    [][\A i \in 1..Len(calls) :
          (/\ calls[i].pc = "lookup"
           /\ NoDefault(calls[i].params.business_id)
           /\ ~InLookup(calls', calls[i].id)) =>
             /\ settled' = <<[id |-> calls[i].id, src |-> calls[i].src, ok |-> FALSE,
                              code |-> "castr_payment_error", message |-> "no_default",
                              params |-> <<calls[i].params>>, data |-> <<>>]>>
             /\ calls' = RemoveAt(calls, i)
             /\ requests' = requests
             /\ hooks' = hooks
             /\ methods' = methods
             /\ schedule' = schedule
             /\ transactions' = transactions]_vars

C5_Witness ==
    /\ settled # <<>>
    /\ settled[1].message = "no_default"
    /\ NoDefault(settled[1].params[1].business_id)

\* the start of the current local day: the last Seoul midnight not after now
TodayStart == CHOOSE m \in (now - 23)..now : (m + 9) % 24 = 0

DueIndexes ==
    {k \in 1..Len(schedule) :
        schedule[k].status = "PENDING" /\ schedule[k].schedule.date <= TodayStart}

NthDue(i) == CHOOSE k \in DueIndexes : Cardinality({j \in DueIndexes : j <= k}) = i

\* C6: a scan hands to pay exactly the entries that are PENDING and scheduled no
\* later than the start of the current local day, each once, with type SCHEDULED
\* and the entry's own fields; no FAILED, PAID or later entry is submitted.
C6_ScanSubmitsDue ==
    [][timers' # timers =>
          /\ Len(calls') = Len(calls) + Cardinality(DueIndexes)
          /\ SubSeq(calls', 1, Len(calls)) = calls
          /\ \A i \in 1..Cardinality(DueIndexes) :
                /\ calls'[Len(calls) + i].pc = "lookup"
                /\ calls'[Len(calls) + i].src = "scan"
                /\ calls'[Len(calls) + i].params =
                      [business_id |-> schedule[NthDue(i)].business_id,
                       merchant_uid |-> schedule[NthDue(i)].merchant_uid,
                       type |-> "SCHEDULED",
                       billing_plan |-> schedule[NthDue(i)].billing_plan,
                       pay_date |-> schedule[NthDue(i)].schedule,
                       amount |-> schedule[NthDue(i)].amount,
                       vat |-> schedule[NthDue(i)].vat]]_vars

C6_Witness ==
    /\ \E i \in 1..Len(calls) :
          /\ calls[i].src = "scan"
          /\ calls[i].pc = "lookup"
          /\ calls[i].params.pay_date.date <= TodayStart
    /\ \E k \in 1..Len(schedule) :
          /\ schedule[k].status = "PENDING"
          /\ schedule[k].schedule.date > TodayStart
          /\ \A i \in 1..Len(calls) : calls[i].params.pay_date # schedule[k].schedule

\* C7: a charge request submitted to the gateway carries a merchant_uid that no
\* earlier request carried.
C7_UniqueMerchantUid ==
    [][\A i \in 1..Len(calls) :
          (/\ calls[i].pc = "lookup"
           /\ \E j \in 1..Len(calls') :
                 calls'[j].id = calls[i].id /\ calls'[j].pc = "gateway") =>
             calls[i].params.merchant_uid \notin requests]_vars

\* C8: when setAsDefault has succeeded and its lookup of a FAILED entry answers,
\* a FAILED entry of the business is handed to pay with its merchant_uid,
\* billing_plan, amount and vat, type SCHEDULED and pay date now; without a
\* FAILED entry no pay call is made.
C8_RetryOnSetAsDefault ==
    [][\A j \in 1..Len(defaults) :
          (defaults[j].pc = "find" /\ defaults' = RemoveAt(defaults, j)) =>
             LET failed == {k \in 1..Len(schedule) :
                               /\ schedule[k].business_id = defaults[j].business_id
                               /\ schedule[k].status = "FAILED"}
             IN IF failed = {}
                THEN calls' = calls /\ requests' = requests
                ELSE /\ Len(calls') = Len(calls) + 1
                     /\ SubSeq(calls', 1, Len(calls)) = calls
                     /\ calls'[Len(calls')].pc = "lookup"
                     /\ \E k \in failed :
                           calls'[Len(calls')].params =
                              [business_id |-> schedule[k].business_id,
                               merchant_uid |-> schedule[k].merchant_uid,
                               type |-> "SCHEDULED",
                               billing_plan |-> schedule[k].billing_plan,
                               pay_date |-> [date |-> now],
                               amount |-> schedule[k].amount,
                               vat |-> schedule[k].vat]]_vars

C8_Witness ==
    \E i \in 1..Len(calls) :
        /\ calls[i].src = "retry"
        /\ calls[i].params.pay_date = [date |-> now]
        /\ \E k \in 1..Len(schedule) :
              /\ schedule[k].status = "FAILED"
              /\ schedule[k].merchant_uid = calls[i].params.merchant_uid
              /\ schedule[k].schedule.date < now

FailuresDescending(fs) ==
    \A i, j \in 1..Len(fs) :
        i < j => fs[i].time_failed.date >= fs[j].time_failed.date

\* C9: every FAILED confirmation of a SCHEDULED intent adds exactly one failure
\* record to the entry with its merchant_uid and touches no other entry, and
\* every entry's failures are in descending order of time_failed, so failures[0]
\* is the most recent.
C9_FailuresSorted ==
    /\ [](\A k \in 1..Len(schedule) : FailuresDescending(schedule[k].failures))
    /\ [][\A h \in 1..Len(hooks) :
             (/\ hooks[h].pc = "queued"
              /\ hooks[h].result.status = "failed"
              /\ hooks[h].result.custom_data.json.type = "SCHEDULED"
              /\ hooks' = RemoveAt(hooks, h)) =>
                /\ Len(schedule') = Len(schedule)
                /\ \E k \in 1..Len(schedule) :
                      /\ schedule[k].merchant_uid =
                            hooks[h].result.custom_data.json.merchant_uid
                      /\ \A m \in 1..Len(schedule) : m # k => schedule'[m] = schedule[m]
                      /\ \E n \in 1..Len(schedule'[k].failures) :
                            /\ schedule'[k].failures[n].imp_uid = hooks[h].result.imp_uid
                            /\ schedule'[k].failures[n].time_failed =
                                  [date |-> hooks[h].result.failed_at]
                            /\ RemoveAt(schedule'[k].failures, n) = schedule[k].failures]_vars

C9_Witness ==
    \E k \in 1..Len(schedule) :
        /\ Len(schedule[k].failures) = 2
        /\ schedule[k].failures[1].time_failed.date > schedule[k].failures[2].time_failed.date
        /\ schedule[k].failures[1].imp_uid > schedule[k].failures[2].imp_uid

\* C10: a successful changeSubscription changes the billing_plan and amount of
\* exactly one entry of the business, an entry whose status is PENDING or FAILED,
\* and nothing else of the schedule.
C10_ChangeFrame ==
    [][\A j \in 1..Len(changes) :
          (/\ changes' = RemoveAt(changes, j)
           /\ res'.op = "changeSubscription"
           /\ res'.success) =>
             \E k \in 1..Len(schedule) :
                /\ schedule[k].business_id = changes[j].business_id
                /\ schedule[k].status \in {"PENDING", "FAILED"}
                /\ schedule' =
                      [schedule EXCEPT ![k].billing_plan = changes[j].new_billing_plan,
                                       ![k].amount = changes[j].new_amount]]_vars

\* e is the local midnight of the day that lies four weeks after the instant p
FourWeeksAfter(p, e) ==
    /\ (e + 9) % 24 = 0
    /\ e <= p + 4 * 7 * 24
    /\ p + 4 * 7 * 24 < e + 24

SubscribeSubmitted ==
    \E i \in 1..Len(calls) :
        /\ calls[i].src = "subscribe"
        /\ calls[i].params.billing_plan = "4_WEEK"
        /\ calls[i].params.amount = 1000

FirstCycleRecorded ==
    /\ Len(transactions) = 1
    /\ transactions[1].merchant_uid = <<"B1", "_", "c", "h", "0">>
    /\ Len(schedule) = 1
    /\ schedule[1].status = "PENDING"
    /\ schedule[1].merchant_uid = <<"B1", "_", "c", "h", "1">>
    /\ FourWeeksAfter(transactions[1].pay_date.iso, schedule[1].schedule.date)

FirstCycleDue ==
    /\ FirstCycleRecorded
    /\ schedule[1].schedule.date <= TodayStart
    /\ \E k \in 1..Len(timers) : timers[k] <= now
    /\ calls = <<>>
    /\ hooks = <<>>

FirstCycleSubmitted ==
    \E i \in 1..Len(calls) :
        /\ calls[i].src = "scan"
        /\ calls[i].params.merchant_uid = <<"B1", "_", "c", "h", "1">>

SecondCycleCreated ==
    /\ Len(schedule) >= 2
    /\ schedule[1].status = "PAID"
    /\ \E k \in 2..Len(schedule) :
          /\ schedule[k].status = "PENDING"
          /\ schedule[k].merchant_uid = <<"B1", "_", "c", "h", "2">>
          /\ schedule[k].schedule.date = schedule[1].schedule.date + 4 * 7 * 24

\* C11: with a default method and an accepting gateway, subscribe(B1, 4_WEEK,
\* 1000) leads to one transaction record and one PENDING entry dated four weeks
\* later; once that entry is due and the scan timer has reached its time, the
\* scan submits it, and it becomes PAID with a further PENDING entry dated four
\* more weeks later.
C11_EndToEnd ==
    /\ SubscribeSubmitted ~> FirstCycleRecorded
    /\ FirstCycleDue ~> FirstCycleSubmitted
    /\ FirstCycleDue ~> SecondCycleCreated

C11_Witness ==
    /\ SecondCycleCreated
    /\ Len(transactions) = 2
    /\ transactions[2].type = "SCHEDULED"

\* C12: once the scheduler is started there is exactly one scan timer pending at
\* any time; a timer fires only when it has reached its time, and the firing
\* leaves exactly one new timer armed, whatever the scan found and however the
\* charges it submitted end, so there is always a next scan.
C12_OneTimerRearmed ==
    /\ [](Len(timers) = 1)
    /\ [][timers' # timers =>
             /\ timers[1] <= now
             /\ Len(timers') = 1
             /\ timers'[1] >= now
             /\ now' = now]_vars

C12_Witness ==
    /\ Len(timers) = 1
    /\ timers[1] > now
    /\ ticks = 2
    /\ \E k \in 1..Len(schedule) : schedule[k].failures # <<>>
    /\ \E i \in 1..Len(calls) : calls[i].src = "scan"

\* C13: when the gateway answers a charge request with status failed, the pay
\* promise is rejected with the deserialized custom_data as params and the
\* gateway's fail_reason as message; with any other status it is resolved with
\* the gateway's result as data.
C13_DeclinedRejects ==
    [][\A i \in 1..Len(calls), st \in {"paid", "failed", "cancelled", "ready"} :
          PayGatewayResult(i, st) =>
             /\ Len(settled') = 1
             /\ settled'[1].id = calls[i].id
             /\ IF st = "failed"
                THEN /\ ~settled'[1].ok
                     /\ settled'[1].message = "declined"
                     /\ settled'[1].params = <<calls[i].request[1].custom_data.json>>
                     /\ settled'[1].data = <<>>
                ELSE /\ settled'[1].ok
                     /\ Len(settled'[1].data) = 1
                     /\ settled'[1].data[1].status = st
                     /\ settled'[1].data[1].imp_uid = calls[i].id
                     /\ settled'[1].data[1].custom_data = calls[i].request[1].custom_data]_vars

C13_Witness ==
    /\ settled # <<>>
    /\ settled[1].ok
    /\ settled[1].data[1].status = "ready"

\* C14: the metadata the reconciler decodes from the blob the gateway echoes
\* equals the intent that pay serialized: business_id, merchant_uid, customer
\* token, type, billing_plan, intended pay date, amount and vat are recovered
\* unchanged.
C14_MetadataRoundTrip ==
    [][\A i \in 1..Len(calls), st \in {"paid", "failed", "cancelled", "ready"} :
          PayGatewayResult(i, st) =>
             LET decoded == JSONparse(hooks'[Len(hooks')].result.custom_data)
                 intent == calls[i].params
             IN /\ decoded.business_id = intent.business_id
                /\ decoded.merchant_uid = intent.merchant_uid
                /\ decoded.customer_uid = calls[i].request[1].customer_uid
                /\ decoded.type = intent.type
                /\ decoded.billing_plan = intent.billing_plan
                /\ decoded.amount = intent.amount
                /\ decoded.vat = intent.vat
                /\ decoded.pay_date = intent.pay_date]_vars

\* the decimal digits of a number below 100
DecimalDigit(d) ==
    CASE d = 0 -> "0" [] d = 1 -> "1" [] d = 2 -> "2" [] d = 3 -> "3" [] d = 4 -> "4"
      [] d = 5 -> "5" [] d = 6 -> "6" [] d = 7 -> "7" [] d = 8 -> "8" [] d = 9 -> "9"

DecimalString(n) ==
    IF n < 10 THEN <<DecimalDigit(n)>>
    ELSE <<DecimalDigit(n \div 10), DecimalDigit(n % 10)>>

\* C15: the entry created on a PAID confirmation has merchant_uid
\* business_id + "_ch" + (n + 1), n being the number the confirmed merchant_uid
\* ends with (B1_ch3 gives B1_ch4, B1_ch9 gives B1_ch10).
C15_NextMerchantUid ==
    [][\A h \in 1..Len(hooks) :
          paymentHookThen(h) =>
             LET custom_data == hooks[h].result.custom_data.json
                 prefix == <<custom_data.business_id, "_", "c", "h">>
             IN /\ Len(schedule') = Len(schedule) + 1
                /\ \E n \in 0..98 :
                      /\ custom_data.merchant_uid = prefix \o DecimalString(n)
                      /\ schedule'[Len(schedule')].merchant_uid =
                            prefix \o DecimalString(n + 1)
                      /\ schedule'[Len(schedule')].business_id = custom_data.business_id]_vars

C15_Witness ==
    \E k \in 1..Len(schedule) :
        /\ schedule[k].merchant_uid = <<"B1", "_", "c", "h", "1", "1">>
        /\ \E j \in 1..Len(schedule) :
              /\ schedule[j].merchant_uid = <<"B1", "_", "c", "h", "1", "0">>
              /\ schedule[j].status = "PAID"

\* f is the first 06:00 Seoul local time strictly after t
FirstSixAfter(t, f) ==
    /\ (f + 9) % 24 = 6
    /\ 0 < f - t
    /\ f - t <= 24

\* C16: the timer that checkScheduleAt6AM arms at time t, at the start and at
\* every re-arm, fires at the first 06:00 Seoul local time strictly after t:
\* t + delay is 06:00 local and 0 < delay <= 24 hours, also when t is 06:00.
C16_DelayToNextSixAM ==
    /\ FirstSixAfter(now, timers[1])
    /\ [][timers' # timers => FirstSixAfter(now, timers'[Len(timers')])]_vars

\* C17: subscribe with a billing_plan outside the catalog answers with an error,
\* makes no pay call and changes no collection; with a catalog plan it makes
\* exactly one pay call, of type INITIAL, with merchant_uid business_id + "_ch" +
\* charge_num (0 when charge_num is absent) and pay date now.
C17_SubscribeValidates ==
    [][\A b \in {"B1"}, p \in {"4_WEEK", "26_WEEK", "52_WEEK", "1_WEEK"},
          a \in {1000}, v \in {100}, n \in {<<>>, <<9>>} :
          subscribe(b, p, a, v, n) =>
             /\ methods' = methods
             /\ schedule' = schedule
             /\ transactions' = transactions
             /\ requests' = requests
             /\ hooks' = hooks
             /\ IF p \notin {"4_WEEK", "26_WEEK", "52_WEEK"}
                THEN /\ calls' = calls
                     /\ res'.op = "subscribe"
                     /\ ~res'.success
                     /\ res'.code = "castr_payment_error"
                ELSE /\ Len(calls') = Len(calls) + 1
                     /\ SubSeq(calls', 1, Len(calls)) = calls
                     /\ calls'[Len(calls')].pc = "lookup"
                     /\ calls'[Len(calls')].params =
                           [business_id |-> b,
                            merchant_uid |-> <<b, "_", "c", "h">> \o
                               DecimalString(IF n = <<>> THEN 0 ELSE n[1]),
                            type |-> "INITIAL",
                            billing_plan |-> p,
                            pay_date |-> [date |-> now],
                            amount |-> a,
                            vat |-> v]]_vars

C17_Witness ==
    /\ res = [op |-> "subscribe", success |-> FALSE, code |-> "castr_payment_error"]
    /\ nreqs = 2
    /\ \E i \in 1..Len(calls) :
          /\ calls[i].src = "subscribe"
          /\ calls[i].params.merchant_uid = <<"B1", "_", "c", "h", "9">>

C19_ScanFailuresRecorded ==
    /\ []((settled # <<>> /\ settled[1].src = "scan" /\ ~settled[1].ok) =>
            \/ \E k \in 1..Len(schedule) :
                  /\ schedule[k].merchant_uid = settled[1].params[1].merchant_uid
                  /\ \E n \in 1..Len(schedule[k].failures) :
                        schedule[k].failures[n].imp_uid = settled[1].id
            \/ \E h \in 1..Len(hooks) :
                  /\ hooks[h].result.imp_uid = settled[1].id
                  /\ hooks[h].result.status = "failed")
    /\ [][settled' # <<>> => \E i \in 1..Len(calls) : calls' = RemoveAt(calls, i)]_vars

\* C20: after a successful changeSubscription, the entry the reconciler creates
\* next for the business carries the billing_plan and amount that the change
\* stored in the in-flight entry, and is dated by that plan's cadence after the
\* in-flight entry's pay date, also when the change landed between the
\* submission of the in-flight entry's charge and its reconciliation.
C20_NextCycleInheritsChange ==
    [][\A h \in 1..Len(hooks) :
          paymentHookThen(h) =>
             LET custom_data == hooks[h].result.custom_data.json
                 created == schedule'[Len(schedule')]
             IN \A k \in 1..Len(schedule) :
                   (/\ schedule[k].merchant_uid = custom_data.merchant_uid
                    /\ \A j \in 1..(k - 1) :
                          schedule[j].merchant_uid # custom_data.merchant_uid) =>
                      /\ created.billing_plan = schedule[k].billing_plan
                      /\ created.amount = schedule[k].amount
                      /\ \A w \in CatalogWeeks(schedule[k].billing_plan) :
                            /\ (created.schedule.date + 9) % 24 = 0
                            /\ created.schedule.date <=
                                  custom_data.pay_date.iso + w * 7 * 24
                            /\ custom_data.pay_date.iso + w * 7 * 24 <
                                  created.schedule.date + 24]_vars


\* C21: a scan hands every due entry to pay in the one step in which it runs; a
\* submission that settles, however it ends, leaves the other submissions in
\* progress, and the submissions of one scan settle in any order; the scan logs
\* its aggregate exactly when the last submission it dispatched has settled (at
\* once when nothing was due), and then successes + failures = dispatched.
C21_ScanAggregate ==
    /\ [](logged # <<>> =>
            /\ Len(logged) = 1
            /\ Len(logged[1].successes) + Len(logged[1].failures) =
                  Len(logged[1].promises)
            /\ \A n \in 1..Len(logged[1].promises), i \in 1..Len(calls) :
                  calls[i].id # logged[1].promises[n])
    /\ [](\A m \in 1..Len(scans) :
             \E n \in 1..Len(scans[m].promises), i \in 1..Len(calls) :
                calls[i].id = scans[m].promises[n])
    /\ [][timers' # timers =>
             /\ Len(calls') = Len(calls) + Cardinality(DueIndexes)
             /\ SubSeq(calls', 1, Len(calls)) = calls
             /\ IF DueIndexes = {}
                THEN scans' = scans /\ Len(logged') = 1 /\ logged'[1].promises = <<>>
                ELSE /\ logged' = <<>>
                     /\ Len(scans') = Len(scans) + 1
                     /\ scans'[Len(scans')].promises =
                           [i \in 1..Cardinality(DueIndexes) |-> calls'[Len(calls) + i].id]
                     /\ scans'[Len(scans')].successes = <<>>
                     /\ scans'[Len(scans')].failures = <<>>]_vars
    /\ [][settled' # <<>> =>
             /\ \E i \in 1..Len(calls) :
                   calls[i].id = settled'[1].id /\ calls' = RemoveAt(calls, i)
             /\ \A m \in 1..Len(scans) :
                   (\E n \in 1..Len(scans[m].promises) :
                       scans[m].promises[n] = settled'[1].id) =>
                      \/ \E j \in 1..Len(scans') :
                            /\ scans'[j].promises = scans[m].promises
                            /\ Len(scans'[j].successes) + Len(scans'[j].failures) =
                                  Len(scans[m].successes) + Len(scans[m].failures) + 1
                      \/ /\ logged' # <<>>
                         /\ logged'[1].promises = scans[m].promises]_vars

C21_Witness ==
    /\ logged # <<>>
    /\ logged[1].promises = <<1, 2>>
    /\ logged[1].successes = <<<<"B2", "_", "c", "h", "1">>>>
    /\ logged[1].failures = <<<<"B1", "_", "c", "h", "1">>>>
    /\ settled # <<>>
    /\ settled[1].id = 1
    /\ settled[1].message = "no_default"


\* the number of transaction records that carry a gateway transaction id
SameImpUid(txs, imp_uid) == Cardinality({n \in 1..Len(txs) : txs[n].imp_uid = imp_uid})

\* C22: every delivery of a PAID confirmation appends one transaction record
\* with the confirmation's gateway transaction id, also when a record with that
\* id is there already: a confirmation delivered twice leaves two records with
\* the same id.
C22_NoDeduplication ==
    [][\A h \in 1..Len(hooks) :
          (paymentHook(h) /\ hooks[h].result.status = "paid") =>
             /\ Len(transactions') = Len(transactions) + 1
             /\ SubSeq(transactions', 1, Len(transactions)) = transactions
             /\ transactions'[Len(transactions')].imp_uid = hooks[h].result.imp_uid
             /\ SameImpUid(transactions', hooks[h].result.imp_uid) =
                   SameImpUid(transactions, hooks[h].result.imp_uid) + 1]_vars

C22_Witness ==
    \E i, j \in 1..Len(transactions) :
        /\ i < j
        /\ transactions[i].imp_uid = transactions[j].imp_uid
        /\ transactions[i] = transactions[j]
        /\ hooks = <<>>


\* C23: reconciling a confirmation changes the transactions or the schedule only
\* when its status is paid, or failed with intent type SCHEDULED; a failed
\* confirmation of an INITIAL intent, a cancelled one and one with a status
\* outside the table leave transactions, schedule and payment methods as they
\* are, and no confirmation changes the payment methods.
C23_ConfirmationFrame ==
    [][\A h \in 1..Len(hooks) :
          (paymentHook(h) \/ paymentHookThen(h)) =>
             /\ methods' = methods
             /\ (\/ hooks[h].result.status \notin {"paid", "failed"}
                 \/ /\ hooks[h].result.status = "failed"
                    /\ hooks[h].result.custom_data.json.type # "SCHEDULED") =>
                   /\ transactions' = transactions
                   /\ schedule' = schedule
                   /\ hooks' = RemoveAt(hooks, h)]_vars

\* the initial charge of B1 was answered with a status other than paid and its
\* confirmation has been reconciled
C23_Witness ==
    /\ npays = 1
    /\ requests = {<<"B1", "_", "c", "h", "0">>}
    /\ calls = <<>>
    /\ hooks = <<>>
    /\ methods # <<>>
    /\ transactions = <<>>
    /\ schedule = <<>>


\* C24: no two entries of the payment schedule carry the same merchant_uid.
C24_UniqueScheduleMerchantUid ==
    \A i, j \in 1..Len(schedule) :
        i # j => schedule[i].merchant_uid # schedule[j].merchant_uid


\* C25: when no pay call and no reconciliation is in progress, every business
\* has at most one schedule entry whose status is PENDING or FAILED.
C25_OneActiveEntry ==
    (calls = <<>> /\ hooks = <<>>) =>
        \A b \in {"B1", "B2"} :
            Cardinality({k \in 1..Len(schedule) :
                            /\ schedule[k].business_id = b
                            /\ schedule[k].status \in {"PENDING", "FAILED"}}) <= 1


\* C26: the two updates of a setAsDefault(business_id, customer_uid) call change
\* no payment method other than methods of business_id, whatever customer_uid
\* is passed.
C26_SetAsDefaultFrame ==
    [][/\ \A b \in {"B1", "B2"},
             c \in {<<x, "_", d>> : x \in {"B1", "B2"}, d \in {"1111", "2222"}} :
             setAsDefault(b, c) =>
                /\ Len(methods') = Len(methods)
                /\ \A n \in 1..Len(methods) :
                      methods'[n] # methods[n] => methods[n].business_id = b
       /\ \A j \in 1..Len(defaults) :
             setAsDefaultSet(j) =>
                /\ Len(methods') = Len(methods)
                /\ \A n \in 1..Len(methods) :
                      methods'[n] # methods[n] =>
                         methods[n].business_id = defaults[j].business_id]_vars


\* C27: a setAsDefault call whose customer_uid no payment method carries, and
\* none ever will, leaves the payment methods as they are from its first store
\* operation to its failure answer, and makes no pay call: the business's
\* default method is still its default.
C27_FailedSetAsDefaultFrame ==
    [][/\ \A b \in {"B1", "B2"} :
             setAsDefault(b, <<"B1", "_", "9999">>) =>
                methods' = methods /\ calls' = calls
       /\ \A j \in 1..Len(defaults) :
             (setAsDefaultSet(j) /\ ~res'.success) =>
                /\ methods' = methods
                /\ calls' = calls
                /\ defaults' = RemoveAt(defaults, j)]_vars


\* C28: the billing_plan of every schedule entry is one of the catalog
\* identifiers 4_WEEK, 26_WEEK and 52_WEEK.
C28_CatalogPlans ==
    \A k \in 1..Len(schedule) :
        schedule[k].billing_plan \in {"4_WEEK", "26_WEEK", "52_WEEK"}

\* C29: an entry with status PENDING has no failure record, an entry with status
\* FAILED has at least one, and no entry that has left PENDING returns to it.
C29_FailuresMatchStatus ==
    /\ [](\A k \in 1..Len(schedule) :
             /\ schedule[k].status = "PENDING" => schedule[k].failures = <<>>
             /\ schedule[k].status = "FAILED" => schedule[k].failures # <<>>)
    /\ [][\A k \in 1..Len(schedule) :
             schedule'[k].status = "PENDING" => schedule[k].status = "PENDING"]_vars

C29_Witness ==
    /\ \E k \in 1..Len(schedule) :
          schedule[k].status = "FAILED" /\ Len(schedule[k].failures) = 1
    /\ \E k \in 1..Len(schedule) :
          schedule[k].status = "PENDING" /\ schedule[k].failures = <<>>
    /\ hooks = <<>>


\* C30: an entry that the scan or the setAsDefault retry hands to pay has a
\* schedule date no later than the start of the current local day: no entry is
\* submitted on a local day before its schedule date.
C30_NotBeforeScheduleDate ==
    [][/\ \A k \in 1..Len(timers) :
             _checkScheduledPayments(k) =>
                \A i \in (Len(calls) + 1)..Len(calls') :
                   \E n \in 1..Len(schedule) :
                      /\ schedule[n].merchant_uid = calls'[i].params.merchant_uid
                      /\ schedule[n].schedule = calls'[i].params.pay_date
                      /\ schedule[n].schedule.date <= TodayStart
       /\ \A j \in 1..Len(defaults) :
             (setAsDefaultRetry(j) /\ calls' # calls) =>
                \A n \in 1..Len(schedule) :
                   (/\ schedule[n].business_id = defaults[j].business_id
                    /\ schedule[n].status = "FAILED"
                    /\ \A m \in 1..(n - 1) :
                          ~(/\ schedule[m].business_id = defaults[j].business_id
                            /\ schedule[m].status = "FAILED")) =>
                      /\ calls'[Len(calls')].params.merchant_uid = schedule[n].merchant_uid
                      /\ schedule[n].schedule.date <= TodayStart]_vars

====
